---- MODULE Spec2Model ----
(***************************************************************************)
(* ConversationQueue of backend/conversation_queue.py: an ordered list of  *)
(* QueueSegment objects with a playback cursor.  Positions are 0-based as  *)
(* in the Python source; TLA+ sequences are 1-based, so the segment at     *)
(* list index i is segments[i + 1].                                        *)
(***************************************************************************)
EXTENDS Integers, Sequences, FiniteSets, TLC

VARIABLES
    segments,           \* self.segments: list of QueueSegment
    current_position,   \* self.current_position
    playback_paused,    \* self.playback_paused
    last,               \* the call that produced this state, with its arguments
    ret,                \* the index insert_response returned; -1 after any other call
                        \* and after a call that raised
    ok,                 \* the boolean advance / seek returned; FALSE after any other call
    out,                \* the object get_next_segment / get_queue_state returned, as a
                        \* one-element sequence; <<>> for None and after any other call
    raised,             \* the key of the KeyError it raised, "none" otherwise
    script,             \* the scripted run of test_conversation_queue.py: how far it
                        \* is and what it passed to the queue (used by ScenarioSpec)
    heap,               \* the ConversationQueue objects the registry created, by
                        \* object reference (used by RegistrySpec)
    _queues,            \* the module-level dict _queues: overview_id -> reference
    ref,                \* the reference get_conversation_queue returned; 0 after any
                        \* other call
    played,             \* what happened since the last insert_response after the
                        \* cursor: its input, the cursor it found and the number of
                        \* advance() calls since (used by PlaybackSpec)
    callers             \* the threads inside get_conversation_queue: where each is,
                        \* what its membership test saw and the queue it was handed
                        \* (used by RaceSpec)

queue_vars == <<segments, current_position, playback_paused, ret, ok, out>>

registry_vars == <<heap, _queues, ref>>

vars == <<queue_vars, last, raised, script, registry_vars, played, callers>>

(***************************************************************************)
(* Bounds of the model.                                                    *)
(***************************************************************************)
MaxLen == 3        \* longest segment list explored
MaxInput == 2      \* longest list handed to load / insert
ScenarioLen == 3   \* most segments the scripted run loads

(***************************************************************************)
(* Input records: the dictionaries callers hand to load_overview_segments  *)
(* and insert_response.  A record is a function from its keys to values;   *)
(* a key that is absent from DOMAIN is a key missing from the dict.  The   *)
(* well-formed ones are those of test_conversation_queue.py; seg_1 comes   *)
(* without the optional duration_ms and audio_url, and the sequence values *)
(* are whatever the producer numbered them (resp_0 and resp_1 count from 0 *)
(* again).                                                                 *)
(***************************************************************************)
OverviewRecords ==
    { [segment_id |-> "seg_0", speaker |-> "zoya", text |-> "Welcome to FSM design!",
       sequence |-> 0, duration_ms |-> 3000, audio_url |-> "/api/audio/seg_0"],
      [segment_id |-> "seg_1", speaker |-> "ravi", text |-> "I'm excited to learn!",
       sequence |-> 1],
      \* malformed: no "text"
      [segment_id |-> "seg_2", speaker |-> "zoya", sequence |-> 2] }

ResponseRecords ==
    { [segment_id |-> "resp_0", speaker |-> "ravi", text |-> "Great question!",
       sequence |-> 0, duration_ms |-> 2000, audio_url |-> "/api/audio/resp_0"],
      [segment_id |-> "resp_1", speaker |-> "zoya", text |-> "Let me explain...",
       sequence |-> 1, duration_ms |-> 3500, audio_url |-> "/api/audio/resp_1"],
      \* malformed: no "speaker", no "sequence"
      [segment_id |-> "resp_2", text |-> "And then..."] }

RECURSIVE SeqsUpTo(_, _)
SeqsUpTo(S, n) ==
    IF n = 0 THEN { <<>> }
    ELSE LET shorter == SeqsUpTo(S, n - 1)
         IN  shorter \cup { Append(s, x) : s \in { t \in shorter : Len(t) = n - 1 }, x \in S }

LoadInputs == SeqsUpTo(OverviewRecords, MaxInput)

InsertInputs == SeqsUpTo(ResponseRecords, MaxInput)

\* datetime.utcnow().isoformat() values a call can observe
Timestamps == { "2025-01-01T00:00:00" }

(***************************************************************************)
(* QueueSegment construction.                                              *)
(***************************************************************************)
RequiredKeys == <<"segment_id", "speaker", "text", "sequence">>

\* The first required key, in keyword-argument order, that seg_data lacks
\* (the KeyError raised by seg_data[key]); "none" if there is none.
MissingKey(seg_data) ==
    LET miss == { i \in 1..Len(RequiredKeys) : RequiredKeys[i] \notin DOMAIN seg_data }
    IN  IF miss = {} THEN "none"
        ELSE RequiredKeys[CHOOSE i \in miss : \A j \in miss : i <= j]

QueueSegment(seg_data, is_response, inserted_at) ==
    [ segment_id  |-> seg_data["segment_id"],
      speaker     |-> seg_data["speaker"],
      text        |-> seg_data["text"],
      sequence    |-> seg_data["sequence"],
      duration_ms |-> IF "duration_ms" \in DOMAIN seg_data THEN seg_data["duration_ms"] ELSE 0,
      audio_url   |-> IF "audio_url" \in DOMAIN seg_data THEN seg_data["audio_url"] ELSE "None",
      is_response |-> is_response,
      inserted_at |-> inserted_at ]

\* Number of leading records of an input list that construct without a KeyError.
RECURSIVE GoodPrefixLen(_)
GoodPrefixLen(input) ==
    IF input = <<>> \/ MissingKey(Head(input)) # "none" THEN 0
    ELSE 1 + GoodPrefixLen(Tail(input))

\* The KeyError a loop over the input raises: the missing key of its first
\* malformed record, "none" when every record is well formed.
FirstError(input) ==
    IF GoodPrefixLen(input) = Len(input) THEN "none"
    ELSE MissingKey(input[GoodPrefixLen(input) + 1])

(***************************************************************************)
(* Python list.insert(index, x): an index past the end appends, a negative *)
(* index counts from the end and is clamped at 0.                          *)
(***************************************************************************)
\* Mutant: list[index] = x, the element at index is overwritten (the list
\* grows only when index is past its end).
ListAssign(list, index, x) ==
    LET n == Len(list)
    IN  IF 0 <= index /\ index < n
        THEN [list EXCEPT ![index + 1] = x]
        ELSE Append(list, x)

ListInsert(list, index, x) ==
    LET n == Len(list)
        at == IF index > n THEN n
              ELSE IF index < 0 THEN (IF n + index < 0 THEN 0 ELSE n + index)
              ELSE index
    IN  SubSeq(list, 1, at) \o <<x>> \o SubSeq(list, at + 1, n)

(***************************************************************************)
(* load_overview_segments: the list is emptied first, then one segment is  *)
(* constructed and appended per record; a KeyError leaves the loop (and    *)
(* the method) with the segments appended so far.                          *)
(***************************************************************************)
\* Mutant: each segment is put at the front of the list instead of appended.
LoadedSegmentsPrepending(input) ==
    [ i \in 1..GoodPrefixLen(input) |->
        QueueSegment(input[GoodPrefixLen(input) + 1 - i], FALSE, "None") ]

LoadedSegments(input) ==
    [ i \in 1..GoodPrefixLen(input) |-> QueueSegment(input[i], FALSE, "None") ]

(***************************************************************************)
(* insert_response and _resequence_segments.                               *)
(***************************************************************************)
\* Mutant: the insert_after_current flag is ignored.
insert_pos_ignoring_flag(cur, segs, insert_after_current) ==
    cur + 1

\* Mutant: the responses go in front of the segment under the cursor.
insert_pos_at_cursor(cur, segs, insert_after_current) ==
    IF insert_after_current THEN cur ELSE Len(segs)

\* Mutant: the responses go behind the segment that follows the cursor.
insert_pos_after_next(cur, segs, insert_after_current) ==
    IF insert_after_current THEN cur + 2 ELSE Len(segs)

\* Mutant: the responses always go to the end of the list.
insert_pos_appending(cur, segs, insert_after_current) ==
    Len(segs)

insert_pos(cur, segs, insert_after_current) ==
    IF insert_after_current THEN cur + 1 ELSE Len(segs)

\* Mutant: inserted_at is not passed and keeps its default None.
response_queue_segments_unstamped(input, stamps) ==
    [ i \in 1..Len(input) |-> QueueSegment(input[i], TRUE, "None") ]

\* response_queue_segments: one QueueSegment per record, is_response = True
response_queue_segments(input, stamps) ==
    [ i \in 1..Len(input) |-> QueueSegment(input[i], TRUE, stamps[i]) ]

\* Mutant: every new segment is inserted at pos itself (insert_pos + i
\* without the + i), which reverses the responses.
RECURSIVE InsertAllAtPos(_, _, _)
InsertAllAtPos(list, pos, new) ==
    IF new = <<>> THEN list
    ELSE InsertAllAtPos(ListInsert(list, pos, Head(new)), pos, Tail(new))

\* for i, segment in enumerate(new): self.segments.insert(pos + i, segment)
RECURSIVE InsertAll(_, _, _)
InsertAll(list, pos, new) ==
    IF new = <<>> THEN list
    ELSE InsertAll(ListInsert(list, pos, Head(new)), pos + 1, Tail(new))

\* for i in range(start_pos, len(self.segments)): self.segments[i].sequence = i
resequence_segments(segs, start_pos) ==
    [ j \in 1..Len(segs) |->
        IF j - 1 >= start_pos THEN [segs[j] EXCEPT !.sequence = j - 1] ELSE segs[j] ]

\* The segment list insert_response leaves behind for a well-formed,
\* non-empty input.
InsertedSegments(segs, cur, input, insert_after_current, stamps) ==
    LET pos == insert_pos(cur, segs, insert_after_current)
        new == response_queue_segments(input, stamps)
    IN  resequence_segments(InsertAll(segs, pos, new), pos + Len(new))

\* Mutant: the early return for an empty input is missing, so the computed
\* insertion index is returned for it as well.
InsertResultNoEarlyReturn(segs, cur, input, insert_after_current) ==
    insert_pos(cur, segs, insert_after_current)

\* The value insert_response returns.
InsertResult(segs, cur, input, insert_after_current) ==
    IF input = <<>> THEN cur ELSE insert_pos(cur, segs, insert_after_current)

(***************************************************************************)
(* advance / seek conditions.                                              *)
(***************************************************************************)
\* Mutant: off by one, the cursor may step to len(segments).
CanAdvanceToEnd(cur, segs) == cur < Len(segs)

CanAdvance(cur, segs) == cur < Len(segs) - 1

\* Mutant: off by one, position len(segments) is accepted.
CanSeekToEnd(position, segs) == 0 <= position /\ position <= Len(segs)

CanSeek(position, segs) == 0 <= position /\ position < Len(segs)

(***************************************************************************)
(* The read-only methods.                                                  *)
(***************************************************************************)
\* overview_id of the queue (the one test_conversation_queue.py creates)
OverviewId == "test_overview_001"

\* Mutant: is_response is left out of the dictionary and reads as its default.
to_dict_without_flag(seg) ==
    [ segment_id  |-> seg.segment_id,
      speaker     |-> seg.speaker,
      text        |-> seg.text,
      sequence    |-> seg.sequence,
      duration_ms |-> seg.duration_ms,
      audio_url   |-> seg.audio_url,
      is_response |-> FALSE,
      inserted_at |-> seg.inserted_at ]

\* QueueSegment.to_dict
to_dict(seg) ==
    [ segment_id  |-> seg.segment_id,
      speaker     |-> seg.speaker,
      text        |-> seg.text,
      sequence    |-> seg.sequence,
      duration_ms |-> seg.duration_ms,
      audio_url   |-> seg.audio_url,
      is_response |-> seg.is_response,
      inserted_at |-> seg.inserted_at ]

\* Mutant: the segment after the cursor is returned.
NextSegmentAfterCursor(segs, cur) ==
    IF cur + 1 >= Len(segs) THEN <<>> ELSE <<segs[cur + 2]>>

\* What get_next_segment returns: <<>> is None.
NextSegment(segs, cur) ==
    IF cur >= Len(segs) THEN <<>> ELSE <<segs[cur + 1]>>

\* Mutant: the current segment is counted as remaining.
get_remaining_segments_with_current(segs, cur) == Len(segs) - cur

get_remaining_segments(segs, cur) == Len(segs) - cur - 1

\* The dictionary get_queue_state returns.
QueueState(overview_id, segs, cur, paused) ==
    [ overview_id        |-> overview_id,
      total_segments     |-> Len(segs),
      current_position   |-> cur,
      remaining_segments |-> get_remaining_segments(segs, cur),
      playback_paused    |-> paused,
      segments           |-> [ i \in 1..Len(segs) |-> to_dict(segs[i]) ] ]

is_paused == playback_paused

\* Mutant: the loop does not return at the first match, the last match wins.
SegmentByIdLastMatch(segs, segment_id) ==
    LET hits == { i \in 1..Len(segs) : segs[i].segment_id = segment_id }
    IN  IF hits = {} THEN <<>>
        ELSE <<segs[CHOOSE i \in hits : \A j \in hits : j <= i]>>

\* What get_segment_by_id returns: the first segment of the list whose
\* segment_id equals the argument; <<>> is None.
SegmentById(segs, segment_id) ==
    LET hits == { i \in 1..Len(segs) : segs[i].segment_id = segment_id }
    IN  IF hits = {} THEN <<>>
        ELSE <<segs[CHOOSE i \in hits : \A j \in hits : i <= j]>>

(***************************************************************************)
(* State machine: one action per public method of ConversationQueue.       *)
(***************************************************************************)
\* No insert_response after the cursor is being followed.
NotFollowing == [phase |-> "idle", responses |-> <<>>, at |-> 0, advances |-> 0]

\* The threads that call get_conversation_queue.
Callers == { "request_1", "request_2" }

\* A thread outside get_conversation_queue that holds no queue.
Outside == [pc |-> "outside", id |-> "none", absent |-> FALSE, held |-> 0]

Init ==
    /\ segments = <<>>
    /\ current_position = 0
    /\ playback_paused = FALSE
    /\ last = [op |-> "init"]
    /\ ret = -1
    /\ ok = FALSE
    /\ out = <<>>
    /\ raised = "none"
    /\ script = [phase |-> "fresh", loaded |-> <<>>, advances |-> 0, responses |-> <<>>]
    /\ heap = <<>>
    /\ _queues = <<>>
    /\ ref = 0
    /\ played = NotFollowing
    /\ callers = [c \in Callers |-> Outside]

\* Mutant: a load starts playback over, the cursor goes back to 0.
load_overview_segments_rewinding(input) ==
    /\ segments' = LoadedSegments(input)
    /\ raised' = FirstError(input)
    /\ current_position' = 0
    /\ ret' = -1
    /\ ok' = FALSE
    /\ out' = <<>>
    /\ last' = [op |-> "load_overview_segments", input |-> input]
    /\ UNCHANGED playback_paused

load_overview_segments(input) ==
    /\ segments' = LoadedSegments(input)
    /\ raised' = FirstError(input)
    /\ ret' = -1
    /\ ok' = FALSE
    /\ out' = <<>>
    /\ last' = [op |-> "load_overview_segments", input |-> input]
    /\ UNCHANGED <<current_position, playback_paused>>

\* Mutant: each segment is inserted as soon as it is constructed, so a
\* KeyError leaves the well-formed records before it in the list.
insert_response_inserting_as_built(input, insert_after_current, stamps) ==
    /\ out' = <<>>
    /\ last' = [op |-> "insert_response", input |-> input,
                insert_after_current |-> insert_after_current]
    /\ IF input = <<>>
       THEN /\ ret' = InsertResult(segments, current_position, input, insert_after_current)
            /\ raised' = "none"
            /\ UNCHANGED segments
       ELSE IF FirstError(input) # "none"
       THEN /\ ret' = -1
            /\ raised' = FirstError(input)
            /\ segments' = InsertAll(segments,
                                     insert_pos(current_position, segments, insert_after_current),
                                     response_queue_segments(SubSeq(input, 1, GoodPrefixLen(input)),
                                                             stamps))
       ELSE /\ segments' = InsertedSegments(segments, current_position, input,
                                            insert_after_current, stamps)
            /\ ret' = InsertResult(segments, current_position, input, insert_after_current)
            /\ raised' = "none"
    /\ ok' = FALSE
    /\ UNCHANGED <<current_position, playback_paused>>

insert_response(input, insert_after_current, stamps) ==
    /\ out' = <<>>
    /\ last' = [op |-> "insert_response", input |-> input,
                insert_after_current |-> insert_after_current]
    /\ IF input = <<>>
       THEN /\ ret' = InsertResult(segments, current_position, input, insert_after_current)
            /\ raised' = "none"
            /\ UNCHANGED segments
       ELSE IF FirstError(input) # "none"
       THEN /\ ret' = -1
            /\ raised' = FirstError(input)
            /\ UNCHANGED segments
       ELSE /\ segments' = InsertedSegments(segments, current_position, input,
                                            insert_after_current, stamps)
            /\ ret' = InsertResult(segments, current_position, input, insert_after_current)
            /\ raised' = "none"
    /\ ok' = FALSE
    /\ UNCHANGED <<current_position, playback_paused>>

\* Mutant: at the end of the list the cursor wraps around to the start.
advance_wrapping ==
    /\ IF CanAdvance(current_position, segments)
       THEN /\ current_position' = current_position + 1
            /\ ok' = TRUE
       ELSE /\ ok' = TRUE
            /\ current_position' = 0
    /\ ret' = -1
    /\ raised' = "none"
    /\ out' = <<>>
    /\ last' = [op |-> "advance"]
    /\ UNCHANGED <<segments, playback_paused>>

advance ==
    /\ IF CanAdvance(current_position, segments)
       THEN /\ current_position' = current_position + 1
            /\ ok' = TRUE
       ELSE /\ ok' = FALSE
            /\ UNCHANGED current_position
    /\ ret' = -1
    /\ raised' = "none"
    /\ out' = <<>>
    /\ last' = [op |-> "advance"]
    /\ UNCHANGED <<segments, playback_paused>>

seek(position) ==
    /\ IF CanSeek(position, segments)
       THEN /\ current_position' = position
            /\ ok' = TRUE
       ELSE /\ ok' = FALSE
            /\ UNCHANGED current_position
    /\ ret' = -1
    /\ raised' = "none"
    /\ out' = <<>>
    /\ last' = [op |-> "seek", position |-> position]
    /\ UNCHANGED <<segments, playback_paused>>

\* Mutant: pause flips the flag.
pause_toggling ==
    /\ playback_paused' = ~playback_paused
    /\ ret' = -1
    /\ ok' = FALSE
    /\ raised' = "none"
    /\ out' = <<>>
    /\ last' = [op |-> "pause"]
    /\ UNCHANGED <<segments, current_position>>

pause ==
    /\ playback_paused' = TRUE
    /\ ret' = -1
    /\ ok' = FALSE
    /\ raised' = "none"
    /\ out' = <<>>
    /\ last' = [op |-> "pause"]
    /\ UNCHANGED <<segments, current_position>>

resume ==
    /\ playback_paused' = FALSE
    /\ ret' = -1
    /\ ok' = FALSE
    /\ raised' = "none"
    /\ out' = <<>>
    /\ last' = [op |-> "resume"]
    /\ UNCHANGED <<segments, current_position>>

get_next_segment ==
    /\ out' = NextSegment(segments, current_position)
    /\ ret' = -1
    /\ ok' = FALSE
    /\ raised' = "none"
    /\ last' = [op |-> "get_next_segment"]
    /\ UNCHANGED <<segments, current_position, playback_paused>>

get_queue_state ==
    /\ out' = <<QueueState(OverviewId, segments, current_position, playback_paused)>>
    /\ ret' = -1
    /\ ok' = FALSE
    /\ raised' = "none"
    /\ last' = [op |-> "get_queue_state"]
    /\ UNCHANGED <<segments, current_position, playback_paused>>

get_segment_by_id(segment_id) ==
    /\ out' = SegmentById(segments, segment_id)
    /\ ret' = -1
    /\ ok' = FALSE
    /\ raised' = "none"
    /\ last' = [op |-> "get_segment_by_id", segment_id |-> segment_id]
    /\ UNCHANGED <<segments, current_position, playback_paused>>

SeekPositions == -1..(MaxLen + 1)

\* The ids callers look up: those of the input records and one no record has.
SegmentIds ==
    { r.segment_id : r \in OverviewRecords \cup ResponseRecords } \cup { "seg_999" }

\* The calls of Spec are made on one queue, outside the scripted run and
\* without the registry.
Unscripted == UNCHANGED <<script, registry_vars, played, callers>>

Next ==
    \/ \E input \in LoadInputs :
         load_overview_segments(input) /\ Unscripted
    \/ \E input \in InsertInputs, after \in BOOLEAN :
         \E stamps \in [1..Len(input) -> Timestamps] :
            /\ Len(segments) + Len(input) <= MaxLen
            /\ insert_response(input, after, stamps)
            /\ Unscripted
    \/ advance /\ Unscripted
    \/ \E position \in SeekPositions : seek(position) /\ Unscripted
    \/ pause /\ Unscripted
    \/ resume /\ Unscripted
    \/ get_next_segment /\ Unscripted
    \/ get_queue_state /\ Unscripted
    \/ \E segment_id \in SegmentIds : get_segment_by_id(segment_id) /\ Unscripted

Spec == Init /\ [][Next]_vars

(***************************************************************************)
(* The scripted run of test_conversation_queue.py, Tests 1-4 and 7: on a   *)
(* fresh queue load n segments, advance j <= n - 1 times, insert k >= 1    *)
(* responses after the current position, take the queue state.             *)
(***************************************************************************)
WellFormed(S) == { r \in S : MissingKey(r) = "none" }

ScenarioLoads == SeqsUpTo(WellFormed(OverviewRecords), ScenarioLen) \ { <<>> }

ScenarioResponses == SeqsUpTo(WellFormed(ResponseRecords), MaxInput) \ { <<>> }

ScenarioLoad ==
    /\ UNCHANGED <<registry_vars, played, callers>>
    /\ script.phase = "fresh"
    /\ \E input \in ScenarioLoads :
          /\ load_overview_segments(input)
          /\ script' = [script EXCEPT !.phase = "loaded", !.loaded = input]

ScenarioAdvance ==
    /\ UNCHANGED <<registry_vars, played, callers>>
    /\ script.phase = "loaded"
    /\ script.advances < Len(script.loaded) - 1
    /\ advance
    /\ script' = [script EXCEPT !.advances = @ + 1]

ScenarioInsert ==
    /\ UNCHANGED <<registry_vars, played, callers>>
    /\ script.phase = "loaded"
    /\ \E input \in ScenarioResponses :
          \E stamps \in [1..Len(input) -> Timestamps] :
             /\ insert_response(input, TRUE, stamps)
             /\ script' = [script EXCEPT !.phase = "inserted", !.responses = input]

ScenarioSnapshot ==
    /\ UNCHANGED <<registry_vars, played, callers>>
    /\ script.phase = "inserted"
    /\ get_queue_state
    /\ script' = [script EXCEPT !.phase = "reported"]

ScenarioNext ==
    \/ ScenarioLoad
    \/ ScenarioAdvance
    \/ ScenarioInsert
    \/ ScenarioSnapshot

ScenarioSpec == Init /\ [][ScenarioNext]_vars

(***************************************************************************)
(* Playback after an insertion: the calls of one queue in any order, with  *)
(* played following the last insert_response made after the cursor on a    *)
(* valid cursor.  A load, a seek or another insert ends the following; an  *)
(* advance() is counted up to one call past the number of responses.       *)
(***************************************************************************)
Untracked == UNCHANGED <<script, registry_vars, callers>>

\* One or two well-formed overview records, in the producer's order.
PlaybackLoads ==
    { <<r>> : r \in WellFormed(OverviewRecords) }
    \cup { <<r1, r2>> \in WellFormed(OverviewRecords) \X WellFormed(OverviewRecords) :
             r1.sequence < r2.sequence }

PlaybackLoad ==
    \E input \in PlaybackLoads :
        /\ load_overview_segments(input)
        /\ played' = NotFollowing
        /\ Untracked

PlaybackSeek ==
    \E position \in SeekPositions :
        /\ seek(position)
        /\ played' = NotFollowing
        /\ Untracked

PlaybackInsert ==
    \E input \in ScenarioResponses, after \in BOOLEAN :
        \E stamps \in [1..Len(input) -> Timestamps] :
            \* room for two responses between two queued segments
            /\ Len(segments) + Len(input) <= MaxLen + 1
            /\ insert_response(input, after, stamps)
            /\ played' = IF /\ after
                            /\ input # <<>>
                            /\ FirstError(input) = "none"
                            /\ current_position < Len(segments)
                         THEN [phase |-> "inserted", responses |-> input,
                               at |-> current_position, advances |-> 0]
                         ELSE NotFollowing
            /\ Untracked

PlaybackAdvance ==
    /\ advance
    /\ played' = IF played.phase = "inserted" /\ played.advances <= Len(played.responses)
                 THEN [played EXCEPT !.advances = @ + 1]
                 ELSE played
    /\ Untracked

PlaybackPause == pause /\ UNCHANGED played /\ Untracked

PlaybackResume == resume /\ UNCHANGED played /\ Untracked

PlaybackPeek == get_next_segment /\ UNCHANGED played /\ Untracked

PlaybackNext ==
    \/ PlaybackLoad
    \/ PlaybackSeek
    \/ PlaybackInsert
    \/ PlaybackAdvance
    \/ PlaybackPause
    \/ PlaybackResume
    \/ PlaybackPeek

PlaybackSpec == Init /\ [][PlaybackNext]_vars

\* The player keeps calling advance(): a call that would change something
\* is made in the end.
PlaybackFairSpec == PlaybackSpec /\ WF_vars(PlaybackAdvance)

(***************************************************************************)
(* The registry: the module-level dict _queues with get_conversation_queue *)
(* and clear_queue, and the queue methods called on registered queues.     *)
(* Objects live in heap under a reference; a new object takes the smallest *)
(* reference not in use.  Callers reach a queue through the registry, so   *)
(* an object whose entry is deleted is unreachable and leaves the heap.    *)
(***************************************************************************)
ConversationIds == { "test_overview_001", "test_overview_002" }

\* The longest list a registered queue grows to.
RegistryLen == 2

RegistryLoads ==
    { <<r>> : r \in WellFormed(OverviewRecords) }
    \cup { <<r1, r2>> \in WellFormed(OverviewRecords) \X WellFormed(OverviewRecords) :
             r1.sequence < r2.sequence }

RegistryResponses ==
    { <<r>> : r \in { x \in WellFormed(ResponseRecords) : x.sequence = 0 } }

\* ConversationQueue.__init__
NewQueue(overview_id) ==
    [ overview_id      |-> overview_id,
      segments         |-> <<>>,
      current_position |-> 0,
      playback_paused  |-> FALSE ]

FreshRef(h) == CHOOSE r \in 1..(Cardinality(DOMAIN h) + 1) : r \notin DOMAIN h

Without(f, k) == [ x \in DOMAIN f \ {k} |-> f[x] ]

\* Mutant: segments is a class attribute, one list shared by every queue.
StoreSharingSegments(h, r, q) ==
    [ x \in DOMAIN h |-> IF x = r THEN q ELSE [h[x] EXCEPT !.segments = q.segments] ]

\* A method that ran on the object at r left it as q: the attributes it
\* assigns are instance attributes, so no other object changes.
Store(h, r, q) == [h EXCEPT ![r] = q]

\* Mutant: the membership test is missing, every call constructs a queue.
get_conversation_queue_always_creating(overview_id) ==
    /\ LET r == IF overview_id \in DOMAIN _queues THEN _queues[overview_id]
                ELSE FreshRef(heap)
       IN  /\ heap' = (r :> NewQueue(overview_id)) @@ heap
           /\ _queues' = (overview_id :> r) @@ _queues
           /\ ref' = r
    /\ last' = [op |-> "get_conversation_queue", id |-> overview_id]
    /\ raised' = "none"
    /\ UNCHANGED <<queue_vars, script, played, callers>>

get_conversation_queue(overview_id) ==
    /\ IF overview_id \notin DOMAIN _queues
       THEN LET r == FreshRef(heap)
            IN  /\ heap' = (r :> NewQueue(overview_id)) @@ heap
                /\ _queues' = (overview_id :> r) @@ _queues
                /\ ref' = r
       ELSE /\ ref' = _queues[overview_id]
            /\ UNCHANGED <<heap, _queues>>
    /\ last' = [op |-> "get_conversation_queue", id |-> overview_id]
    /\ raised' = "none"
    /\ UNCHANGED <<queue_vars, script, played, callers>>

\* Mutant: del _queues[overview_id] without the membership test, a KeyError
\* for an id that is not registered.
clear_queue_unchecked(overview_id) ==
    /\ IF overview_id \in DOMAIN _queues
       THEN /\ _queues' = Without(_queues, overview_id)
            /\ heap' = Without(heap, _queues[overview_id])
            /\ raised' = "none"
       ELSE /\ raised' = overview_id
            /\ UNCHANGED <<heap, _queues>>
    /\ ref' = 0
    /\ last' = [op |-> "clear_queue", id |-> overview_id,
                cleared |-> overview_id \in DOMAIN _queues]
    /\ UNCHANGED <<queue_vars, script, played, callers>>

\* last.cleared: whether "Cleared queue for ..." was printed
clear_queue(overview_id) ==
    /\ IF overview_id \in DOMAIN _queues
       THEN /\ _queues' = Without(_queues, overview_id)
            /\ heap' = Without(heap, _queues[overview_id])
       ELSE UNCHANGED <<heap, _queues>>
    /\ ref' = 0
    /\ raised' = "none"
    /\ last' = [op |-> "clear_queue", id |-> overview_id,
                cleared |-> overview_id \in DOMAIN _queues]
    /\ UNCHANGED <<queue_vars, script, played, callers>>

\* A method call on the queue registered under overview_id that leaves the
\* object as q.
MethodCall(overview_id, op, q) ==
    /\ overview_id \in DOMAIN _queues
    /\ heap' = Store(heap, _queues[overview_id], q)
    /\ ref' = 0
    /\ raised' = "none"
    /\ last' = [op |-> op, id |-> overview_id]
    /\ UNCHANGED <<_queues, queue_vars, script, played, callers>>

\* The queue registered under overview_id.
Registered(overview_id) == heap[_queues[overview_id]]

registered_load(overview_id, input) ==
    /\ overview_id \in DOMAIN _queues
    /\ MethodCall(overview_id, "load_overview_segments",
                  [Registered(overview_id) EXCEPT !.segments = LoadedSegments(input)])

registered_insert(overview_id, input, insert_after_current, stamps) ==
    /\ overview_id \in DOMAIN _queues
    /\ Len(Registered(overview_id).segments) + Len(input) <= RegistryLen
    /\ LET q == Registered(overview_id)
       IN  MethodCall(overview_id, "insert_response",
                      [q EXCEPT !.segments =
                          InsertedSegments(q.segments, q.current_position, input,
                                           insert_after_current, stamps)])

registered_advance(overview_id) ==
    /\ overview_id \in DOMAIN _queues
    /\ LET q == Registered(overview_id)
       IN  MethodCall(overview_id, "advance",
                      IF CanAdvance(q.current_position, q.segments)
                      THEN [q EXCEPT !.current_position = @ + 1] ELSE q)

registered_seek(overview_id, position) ==
    /\ overview_id \in DOMAIN _queues
    /\ LET q == Registered(overview_id)
       IN  MethodCall(overview_id, "seek",
                      IF CanSeek(position, q.segments)
                      THEN [q EXCEPT !.current_position = position] ELSE q)

registered_pause(overview_id) ==
    /\ overview_id \in DOMAIN _queues
    /\ MethodCall(overview_id, "pause",
                  [Registered(overview_id) EXCEPT !.playback_paused = TRUE])

registered_resume(overview_id) ==
    /\ overview_id \in DOMAIN _queues
    /\ MethodCall(overview_id, "resume",
                  [Registered(overview_id) EXCEPT !.playback_paused = FALSE])

RegistryNext ==
    \/ \E id \in ConversationIds : get_conversation_queue(id)
    \/ \E id \in ConversationIds : clear_queue(id)
    \/ \E id \in ConversationIds, input \in RegistryLoads : registered_load(id, input)
    \/ \E id \in ConversationIds, input \in RegistryResponses, after \in BOOLEAN :
         \E stamps \in [1..Len(input) -> Timestamps] :
            registered_insert(id, input, after, stamps)
    \/ \E id \in ConversationIds : registered_advance(id)
    \/ \E id \in ConversationIds, position \in 0..1 : registered_seek(id, position)
    \/ \E id \in ConversationIds : registered_pause(id)
    \/ \E id \in ConversationIds : registered_resume(id)

RegistrySpec == Init /\ [][RegistryNext]_vars

(***************************************************************************)
(* get_conversation_queue called from several threads.  The function is    *)
(* three statements and holds no lock, so a thread can be suspended        *)
(* between any two of them (ConversationQueue.__init__ prints, which lets  *)
(* another thread run):                                                    *)
(*   test    if overview_id not in _queues:                                *)
(*   store       _queues[overview_id] = ConversationQueue(overview_id)     *)
(*   return  return _queues[overview_id]                                   *)
(* A thread that was handed a queue uses it (load, advance) and may call   *)
(* again.  An object stays in heap while a thread can hold it.             *)
(***************************************************************************)
CallerEnters(c, overview_id) ==
    /\ callers[c].pc = "outside"
    /\ callers' = [callers EXCEPT ![c].pc = "test", ![c].id = overview_id]
    /\ last' = [op |-> "get_conversation_queue", id |-> overview_id, caller |-> c,
                at |-> "enter"]
    /\ ref' = 0
    /\ raised' = "none"
    /\ UNCHANGED <<heap, _queues, queue_vars, script, played>>

CallerTests(c) ==
    /\ callers[c].pc = "test"
    /\ callers' = [callers EXCEPT
                      ![c].absent = callers[c].id \notin DOMAIN _queues,
                      ![c].pc = IF callers[c].id \notin DOMAIN _queues
                                THEN "store" ELSE "return"]
    /\ last' = [op |-> "get_conversation_queue", id |-> callers[c].id, caller |-> c,
                at |-> "test"]
    /\ ref' = 0
    /\ raised' = "none"
    /\ UNCHANGED <<heap, _queues, queue_vars, script, played>>

CallerStores(c) ==
    /\ callers[c].pc = "store"
    /\ LET r == FreshRef(heap)
       IN  /\ heap' = (r :> NewQueue(callers[c].id)) @@ heap
           /\ _queues' = (callers[c].id :> r) @@ _queues
    /\ callers' = [callers EXCEPT ![c].pc = "return"]
    /\ last' = [op |-> "get_conversation_queue", id |-> callers[c].id, caller |-> c,
                at |-> "store"]
    /\ ref' = 0
    /\ raised' = "none"
    /\ UNCHANGED <<queue_vars, script, played>>

CallerReturns(c) ==
    /\ callers[c].pc = "return"
    /\ callers' = [callers EXCEPT ![c].pc = "outside",
                                  ![c].held = _queues[callers[c].id]]
    /\ ref' = _queues[callers[c].id]
    /\ last' = [op |-> "get_conversation_queue", id |-> callers[c].id, caller |-> c,
                at |-> "return"]
    /\ raised' = "none"
    /\ UNCHANGED <<heap, _queues, queue_vars, script, played>>

\* A method call of thread c on the queue it holds, leaving the object as q.
CallerCalls(c, op, q) ==
    /\ heap' = Store(heap, callers[c].held, q)
    /\ last' = [op |-> op, id |-> callers[c].id, caller |-> c, at |-> "held"]
    /\ ref' = 0
    /\ raised' = "none"
    /\ UNCHANGED <<_queues, callers, queue_vars, script, played>>

CallerLoads(c, input) ==
    /\ callers[c].pc = "outside"
    /\ callers[c].held # 0
    /\ CallerCalls(c, "load_overview_segments",
                   [heap[callers[c].held] EXCEPT !.segments = LoadedSegments(input)])

CallerAdvances(c) ==
    /\ callers[c].pc = "outside"
    /\ callers[c].held # 0
    /\ LET q == heap[callers[c].held]
       IN  CallerCalls(c, "advance",
                       IF CanAdvance(q.current_position, q.segments)
                       THEN [q EXCEPT !.current_position = @ + 1] ELSE q)

\* The two well-formed overview records, in the producer's order.
RaceLoads == { input \in RegistryLoads : Len(input) = 2 }

RaceNext ==
    \/ \E c \in Callers, id \in ConversationIds : CallerEnters(c, id)
    \/ \E c \in Callers : CallerTests(c)
    \/ \E c \in Callers : CallerStores(c)
    \/ \E c \in Callers : CallerReturns(c)
    \/ \E c \in Callers, input \in RaceLoads : CallerLoads(c, input)
    \/ \E c \in Callers : CallerAdvances(c)

RaceSpec == Init /\ [][RaceNext]_vars

(***************************************************************************)
(* Twin queues: two ConversationQueue objects, heap[1] and heap[2], that   *)
(* receive the same calls; pause() and resume() go to one of them at a     *)
(* time, so the two differ in the paused flag and in nothing a call did    *)
(* not make of it.  A call is a record of the method name and arguments;   *)
(* out holds the two results.                                              *)
(***************************************************************************)
Returned(ret_, ok_, out_, raised_) ==
    [ret |-> ret_, ok |-> ok_, out |-> out_, raised |-> raised_]

\* Mutant: a paused queue refuses to advance.
CallHonouringPause(q, call) ==
    LET segs == q.segments
        cur == q.current_position
    IN  CASE call.op = "load_overview_segments" ->
               [ queue  |-> [q EXCEPT !.segments = LoadedSegments(call.input)],
                 result |-> Returned(-1, FALSE, <<>>, FirstError(call.input)) ]
          [] call.op = "insert_response" ->
               IF call.input = <<>>
               THEN [ queue  |-> q,
                      result |-> Returned(InsertResult(segs, cur, call.input,
                                                       call.insert_after_current),
                                          FALSE, <<>>, "none") ]
               ELSE IF FirstError(call.input) # "none"
               THEN [ queue  |-> q,
                      result |-> Returned(-1, FALSE, <<>>, FirstError(call.input)) ]
               ELSE [ queue  |-> [q EXCEPT !.segments =
                                     InsertedSegments(segs, cur, call.input,
                                                      call.insert_after_current,
                                                      call.stamps)],
                      result |-> Returned(InsertResult(segs, cur, call.input,
                                                       call.insert_after_current),
                                          FALSE, <<>>, "none") ]
          [] call.op = "advance" ->
               IF CanAdvance(cur, segs) /\ ~q.playback_paused
               THEN [ queue  |-> [q EXCEPT !.current_position = cur + 1],
                      result |-> Returned(-1, TRUE, <<>>, "none") ]
               ELSE [ queue |-> q, result |-> Returned(-1, FALSE, <<>>, "none") ]
          [] call.op = "seek" ->
               IF CanSeek(call.position, segs)
               THEN [ queue  |-> [q EXCEPT !.current_position = call.position],
                      result |-> Returned(-1, TRUE, <<>>, "none") ]
               ELSE [ queue |-> q, result |-> Returned(-1, FALSE, <<>>, "none") ]
          [] call.op = "get_next_segment" ->
               [ queue  |-> q,
                 result |-> Returned(-1, FALSE, NextSegment(segs, cur), "none") ]
          [] call.op = "pause" ->
               [ queue  |-> [q EXCEPT !.playback_paused = TRUE],
                 result |-> Returned(-1, FALSE, <<>>, "none") ]
          [] call.op = "resume" ->
               [ queue  |-> [q EXCEPT !.playback_paused = FALSE],
                 result |-> Returned(-1, FALSE, <<>>, "none") ]

\* The object a method call leaves behind and what it returns or raises.
Call(q, call) ==
    LET segs == q.segments
        cur == q.current_position
    IN  CASE call.op = "load_overview_segments" ->
               [ queue  |-> [q EXCEPT !.segments = LoadedSegments(call.input)],
                 result |-> Returned(-1, FALSE, <<>>, FirstError(call.input)) ]
          [] call.op = "insert_response" ->
               IF call.input = <<>>
               THEN [ queue  |-> q,
                      result |-> Returned(InsertResult(segs, cur, call.input,
                                                       call.insert_after_current),
                                          FALSE, <<>>, "none") ]
               ELSE IF FirstError(call.input) # "none"
               THEN [ queue  |-> q,
                      result |-> Returned(-1, FALSE, <<>>, FirstError(call.input)) ]
               ELSE [ queue  |-> [q EXCEPT !.segments =
                                     InsertedSegments(segs, cur, call.input,
                                                      call.insert_after_current,
                                                      call.stamps)],
                      result |-> Returned(InsertResult(segs, cur, call.input,
                                                       call.insert_after_current),
                                          FALSE, <<>>, "none") ]
          [] call.op = "advance" ->
               IF CanAdvance(cur, segs)
               THEN [ queue  |-> [q EXCEPT !.current_position = cur + 1],
                      result |-> Returned(-1, TRUE, <<>>, "none") ]
               ELSE [ queue |-> q, result |-> Returned(-1, FALSE, <<>>, "none") ]
          [] call.op = "seek" ->
               IF CanSeek(call.position, segs)
               THEN [ queue  |-> [q EXCEPT !.current_position = call.position],
                      result |-> Returned(-1, TRUE, <<>>, "none") ]
               ELSE [ queue |-> q, result |-> Returned(-1, FALSE, <<>>, "none") ]
          [] call.op = "get_next_segment" ->
               [ queue  |-> q,
                 result |-> Returned(-1, FALSE, NextSegment(segs, cur), "none") ]
          [] call.op = "pause" ->
               [ queue  |-> [q EXCEPT !.playback_paused = TRUE],
                 result |-> Returned(-1, FALSE, <<>>, "none") ]
          [] call.op = "resume" ->
               [ queue  |-> [q EXCEPT !.playback_paused = FALSE],
                 result |-> Returned(-1, FALSE, <<>>, "none") ]

Twins == {1, 2}

TwinInit ==
    /\ segments = <<>>
    /\ current_position = 0
    /\ playback_paused = FALSE
    /\ last = [op |-> "init"]
    /\ ret = -1
    /\ ok = FALSE
    /\ out = <<>>
    /\ raised = "none"
    /\ script = [phase |-> "fresh", loaded |-> <<>>, advances |-> 0, responses |-> <<>>]
    /\ heap = [t \in Twins |-> NewQueue(OverviewId)]
    /\ _queues = <<>>
    /\ ref = 0
    /\ played = NotFollowing
    /\ callers = [c \in Callers |-> Outside]

\* Both twins receive the call.
TwinCall(call) ==
    /\ heap' = [t \in Twins |-> Call(heap[t], call).queue]
    /\ out' = [t \in Twins |-> Call(heap[t], call).result]
    /\ UNCHANGED <<segments, current_position, playback_paused, ret, ok, raised,
                   script, _queues, ref, played, callers>>

\* Only twin t receives the call.
TwinCallTo(t, call) ==
    /\ heap' = [heap EXCEPT ![t] = Call(heap[t], call).queue]
    /\ out' = [u \in Twins |-> IF u = t THEN Call(heap[t], call).result
                               ELSE Returned(-1, FALSE, <<>>, "none")]
    /\ UNCHANGED <<segments, current_position, playback_paused, ret, ok, raised,
                   script, _queues, ref, played, callers>>

\* The loads and responses of PlaybackSpec, a load and a response that
\* raise, a response after which a later record raises, the empty response.
TwinLoads == PlaybackLoads \cup { <<r>> : r \in OverviewRecords \ WellFormed(OverviewRecords) }

TwinResponses ==
    { <<>> }
    \cup { <<r>> : r \in ResponseRecords }
    \cup { <<r1, r2>> \in WellFormed(ResponseRecords) \X ResponseRecords : r1 # r2 }

TwinLoad ==
    \E input \in TwinLoads :
        /\ last' = [op |-> "load_overview_segments", input |-> input]
        /\ TwinCall([op |-> "load_overview_segments", input |-> input])

TwinInsert ==
    \E input \in TwinResponses, after \in BOOLEAN :
        \E stamps \in [1..Len(input) -> Timestamps] :
            /\ Len(heap[1].segments) + Len(input) <= MaxLen
            /\ last' = [op |-> "insert_response", input |-> input,
                        insert_after_current |-> after]
            /\ TwinCall([op |-> "insert_response", input |-> input,
                         insert_after_current |-> after, stamps |-> stamps])

TwinAdvance ==
    /\ last' = [op |-> "advance"]
    /\ TwinCall([op |-> "advance"])

TwinSeek ==
    \E position \in SeekPositions :
        /\ last' = [op |-> "seek", position |-> position]
        /\ TwinCall([op |-> "seek", position |-> position])

TwinPeek ==
    /\ last' = [op |-> "get_next_segment"]
    /\ TwinCall([op |-> "get_next_segment"])

TwinPause ==
    \E t \in Twins :
        /\ last' = [op |-> "pause", to |-> t]
        /\ TwinCallTo(t, [op |-> "pause"])

TwinResume ==
    \E t \in Twins :
        /\ last' = [op |-> "resume", to |-> t]
        /\ TwinCallTo(t, [op |-> "resume"])

TwinNext ==
    \/ TwinLoad
    \/ TwinInsert
    \/ TwinAdvance
    \/ TwinSeek
    \/ TwinPeek
    \/ TwinPause
    \/ TwinResume

TwinSpec == TwinInit /\ [][TwinNext]_vars

(***************************************************************************)
(* Vocabulary of the properties.                                           *)
(***************************************************************************)
\* What a segment is, apart from the position number the queue writes on it.
Identity(seg) ==
    <<seg.segment_id, seg.speaker, seg.text, seg.duration_ms, seg.audio_url,
      seg.is_response, seg.inserted_at>>

\* seg is the response segment made from input record rec.
IsResponseFor(seg, rec) ==
    /\ seg.segment_id = rec.segment_id
    /\ seg.speaker = rec.speaker
    /\ seg.text = rec.text
    /\ seg.is_response

\* This state was produced by an insert_response call that inserted something.
Inserted ==
    /\ last.op = "insert_response"
    /\ Len(last.input) >= 1
    /\ raised = "none"

(***************************************************************************)
(* C1.  Sequence invariant: in every reachable state the segment at list   *)
(* index i has sequence = i.                                               *)
(***************************************************************************)
C1_SequenceInvariant ==
    \A i \in 1..Len(segments) : segments[i].sequence = i - 1

(***************************************************************************)
(* C2.  Cursor bounds: in every reachable state                            *)
(* 0 <= current_position <= len(segments).                                 *)
(***************************************************************************)
C2_CursorBounds ==
    /\ 0 <= current_position
    /\ current_position <= Len(segments)

(***************************************************************************)
(* C3.  Insertion placement: insert_response(new, after_current = true)    *)
(* with k >= 1 well-formed records, on a queue whose cursor c is a valid   *)
(* index, yields old[0..c] ++ new ++ old[c+1..]: the segments at indices   *)
(* <= c are untouched, the new ones follow in input order, every segment   *)
(* previously at an index >= c+1 is found k places to the right, and the   *)
(* cursor stays at c.                                                      *)
(***************************************************************************)
C3_InsertionPlacement ==
    [][ ( /\ Inserted'
          /\ last'.insert_after_current
          /\ current_position < Len(segments) )
        => LET c == current_position
               k == Len(last'.input)
           IN  /\ Len(segments') = Len(segments) + k
               /\ \A i \in 1..(c + 1) : segments'[i] = segments[i]
               /\ \A i \in 1..k : IsResponseFor(segments'[c + 1 + i], last'.input[i])
               /\ \A i \in (c + 2)..Len(segments) :
                     Identity(segments'[i + k]) = Identity(segments[i])
               /\ current_position' = c ]_vars

\* An insertion after the cursor that moved at least one older segment.
C3_Witness ==
    /\ Inserted
    /\ last.insert_after_current
    /\ current_position + 1 + Len(last.input) < Len(segments)
    /\ IsResponseFor(segments[current_position + 2], last.input[1])

(***************************************************************************)
(* C4.  Insert resequencing: after insert_response with non-empty input    *)
(* computed insertion index p, every segment from index p to the end of    *)
(* the list, the inserted ones included, has sequence equal to its index.  *)
(***************************************************************************)
C4_InsertResequenced ==
    Inserted => \A i \in ret..(Len(segments) - 1) : segments[i + 1].sequence = i

(***************************************************************************)
(* C5.  Returned index is the real insertion point: for non-empty input    *)
(* the value insert_response returns is the index at which the first       *)
(* inserted segment sits after the call.                                   *)
(***************************************************************************)
C5_ReturnedIndexIsInsertionPoint ==
    Inserted =>
        /\ 0 <= ret
        /\ ret < Len(segments)
        /\ IsResponseFor(segments[ret + 1], last.input[1])

(***************************************************************************)
(* C6.  Empty-insert no-op: insert_response([]) with either value of       *)
(* after_current leaves segments, cursor and paused flag unchanged and     *)
(* returns the pre-call current_position.                                  *)
(***************************************************************************)
C6_EmptyInsertNoOp ==
    [][ (last'.op = "insert_response" /\ last'.input = <<>>)
        => /\ segments' = segments
           /\ current_position' = current_position
           /\ playback_paused' = playback_paused
           /\ raised' = "none"
           /\ ret' = current_position ]_vars

\* An empty insert on a state where the cursor, the cursor + 1 and the list
\* length are three different numbers, with the paused flag set.
C6_Witness ==
    /\ last.op = "insert_response"
    /\ last.input = <<>>
    /\ ~last.insert_after_current
    /\ ret = current_position
    /\ current_position + 1 < Len(segments)
    /\ playback_paused

(***************************************************************************)
(* C7.  Append placement: insert_response(new, after_current = false) with *)
(* k >= 1 well-formed records on a queue of n segments returns n, puts the *)
(* new segments at indices n..n+k-1 in input order whatever the cursor is, *)
(* keeps the n older segments where they were and leaves the cursor alone. *)
(***************************************************************************)
C7_AppendPlacement ==
    [][ (Inserted' /\ ~last'.insert_after_current)
        => LET n == Len(segments)
               k == Len(last'.input)
           IN  /\ ret' = n
               /\ Len(segments') = n + k
               /\ \A i \in 1..n : segments'[i] = segments[i]
               /\ \A i \in 1..k : IsResponseFor(segments'[n + i], last'.input[i])
               /\ current_position' = current_position ]_vars

\* An append made while the cursor was not on the last segment.
C7_Witness ==
    /\ Inserted
    /\ ~last.insert_after_current
    /\ ret = Len(segments) - Len(last.input)
    /\ current_position + 1 < ret
    /\ IsResponseFor(segments[ret + 1], last.input[1])

(***************************************************************************)
(* C8.  Advance boundary: advance() returns true and moves the cursor one  *)
(* forward iff current_position < len(segments) - 1 before the call;       *)
(* otherwise it returns false and changes nothing.  A successful advance   *)
(* never leaves the cursor at len(segments).                               *)
(***************************************************************************)
C8_AdvanceBoundary ==
    [][ (last'.op = "advance")
        => /\ segments' = segments
           /\ playback_paused' = playback_paused
           /\ IF current_position < Len(segments) - 1
              THEN /\ ok' = TRUE
                   /\ current_position' = current_position + 1
                   /\ current_position' # Len(segments')
              ELSE /\ ok' = FALSE
                   /\ current_position' = current_position ]_vars

\* A rejected advance with the cursor on the last of several segments.
C8_Witness ==
    /\ last.op = "advance"
    /\ ~ok
    /\ Len(segments) >= 2
    /\ current_position = Len(segments) - 1

(***************************************************************************)
(* C9.  Seek boundary: seek(p) sets the cursor to p and returns true iff   *)
(* 0 <= p < len(segments); otherwise it returns false and leaves cursor,   *)
(* segments and paused flag unchanged.                                     *)
(***************************************************************************)
C9_SeekBoundary ==
    [][ (last'.op = "seek")
        => LET p == last'.position
           IN  /\ segments' = segments
               /\ playback_paused' = playback_paused
               /\ IF 0 <= p /\ p < Len(segments)
                  THEN /\ ok' = TRUE
                       /\ current_position' = p
                  ELSE /\ ok' = FALSE
                       /\ current_position' = current_position ]_vars

\* A rejected seek to len(segments) on a non-empty queue.
C9_Witness ==
    /\ last.op = "seek"
    /\ Len(segments) >= 1
    /\ last.position = Len(segments)
    /\ ~ok
    /\ current_position < Len(segments)

(***************************************************************************)
(* C10.  load_initial is all-or-nothing: when a record of the input lacks  *)
(* a required field the call fails and segments, cursor and paused flag    *)
(* are what they were before the call.                                     *)
(***************************************************************************)
C10_LoadAllOrNothing ==
    [][ (last'.op = "load_overview_segments" /\ raised' # "none")
        => /\ segments' = segments
           /\ current_position' = current_position
           /\ playback_paused' = playback_paused ]_vars

(***************************************************************************)
(* C11.  load_initial on well-formed input replaces the whole list with    *)
(* exactly the input records in their order, each with is_response false   *)
(* and inserted_at None, and leaves cursor and paused flag as they were.   *)
(***************************************************************************)
C11_LoadReplaces ==
    [][ (last'.op = "load_overview_segments" /\ raised' = "none")
        => LET input == last'.input
           IN  /\ Len(segments') = Len(input)
               /\ \A i \in 1..Len(input) :
                     /\ segments'[i].segment_id = input[i].segment_id
                     /\ segments'[i].speaker = input[i].speaker
                     /\ segments'[i].text = input[i].text
                     /\ ~segments'[i].is_response
                     /\ segments'[i].inserted_at = "None"
               /\ current_position' = current_position
               /\ playback_paused' = playback_paused ]_vars

\* A load of two different records into a queue that was used before
\* (advanced and paused).
C11_Witness ==
    /\ last.op = "load_overview_segments"
    /\ raised = "none"
    /\ Len(last.input) = 2
    /\ last.input[1] # last.input[2]
    /\ Len(segments) = 2
    /\ current_position >= 1
    /\ playback_paused

(***************************************************************************)
(* C12.  next() returns the segment at index current_position when         *)
(* current_position < len(segments) and None exactly when                  *)
(* current_position >= len(segments); it changes neither cursor, list nor  *)
(* paused flag, so two next() calls in a row return the same segment.      *)
(***************************************************************************)
C12_NextIsCurrent ==
    [][ (last'.op = "get_next_segment")
        => /\ segments' = segments
           /\ current_position' = current_position
           /\ playback_paused' = playback_paused
           /\ IF current_position < Len(segments)
              THEN out' = <<segments[current_position + 1]>>
              ELSE out' = <<>>
           /\ (last.op = "get_next_segment" => out' = out) ]_vars

\* next() returned a segment that is neither the first nor the last.
C12_Witness ==
    /\ last.op = "get_next_segment"
    /\ current_position >= 1
    /\ current_position + 1 < Len(segments)
    /\ out = <<segments[current_position + 1]>>

(***************************************************************************)
(* C13.  The remaining_segments value snapshot() reports equals            *)
(* max(0, total_segments - current_position - 1) and is never negative.    *)
(***************************************************************************)
C13_RemainingClamped ==
    (last.op = "get_queue_state")
    => LET rest == Len(segments) - current_position - 1
       IN  /\ out[1].remaining_segments >= 0
           /\ out[1].remaining_segments = IF rest > 0 THEN rest ELSE 0

(***************************************************************************)
(* C15.  Snapshot fidelity: snapshot() reports total_segments =            *)
(* len(segments), the cursor, the paused flag and the segments in list     *)
(* order with their current sequence and is_response values; it changes no *)
(* queue state, so two snapshots in a row are equal.                       *)
(***************************************************************************)
C15_SnapshotFidelity ==
    [][ (last'.op = "get_queue_state")
        => /\ segments' = segments
           /\ current_position' = current_position
           /\ playback_paused' = playback_paused
           /\ Len(out') = 1
           /\ out'[1].total_segments = Len(segments)
           /\ out'[1].current_position = current_position
           /\ out'[1].playback_paused = playback_paused
           /\ Len(out'[1].segments) = Len(segments)
           /\ \A i \in 1..Len(segments) :
                 /\ out'[1].segments[i].segment_id = segments[i].segment_id
                 /\ out'[1].segments[i].sequence = segments[i].sequence
                 /\ out'[1].segments[i].is_response = segments[i].is_response
           /\ (last.op = "get_queue_state" => out' = out) ]_vars

\* A snapshot of a paused queue holding loaded and response segments, with
\* the cursor moved.
C15_Witness ==
    /\ last.op = "get_queue_state"
    /\ out[1].total_segments = 3
    /\ out[1].current_position = 1
    /\ out[1].playback_paused
    /\ out[1].segments[2].is_response
    /\ ~out[1].segments[3].is_response

(***************************************************************************)
(* C16.  pause() and resume() change only the paused flag: after pause()   *)
(* is_paused() is true, after resume() it is false, whatever it was        *)
(* before, and neither changes the cursor or the segment list.             *)
(***************************************************************************)
C16_PauseResumeOnlyFlag ==
    [][ /\ (last'.op = "pause" => is_paused')
        /\ (last'.op = "resume" => ~is_paused')
        /\ (last'.op \in {"pause", "resume"}
            => /\ current_position' = current_position
               /\ segments' = segments) ]_vars

\* A pause on a queue with several segments and the cursor moved.
C16_Witness ==
    /\ last.op = "pause"
    /\ is_paused
    /\ Len(segments) >= 2
    /\ current_position >= 1

(***************************************************************************)
(* C20.  insert_response rejects malformed input before any mutation: when *)
(* a record of a non-empty input lacks a required field the call fails     *)
(* and the segment list, the cursor and the paused flag are as before,     *)
(* even when earlier records of the input are well formed.                 *)
(***************************************************************************)
C20_InsertRejectsBeforeMutation ==
    [][ (last'.op = "insert_response" /\ raised' # "none")
        => /\ segments' = segments
           /\ current_position' = current_position
           /\ playback_paused' = playback_paused ]_vars

\* A rejected insert whose first record was well formed, on a non-empty queue.
C20_Witness ==
    /\ last.op = "insert_response"
    /\ raised # "none"
    /\ GoodPrefixLen(last.input) >= 1
    /\ Len(segments) >= 1

(***************************************************************************)
(* C14.  Scenario trace: on a fresh queue, load n segments, advance j      *)
(* times (j <= n - 1), insert k >= 1 responses after current.  The final   *)
(* order is the first j + 1 loaded segments, then the k responses, then    *)
(* the other n - j - 1 loaded segments; the cursor is still j; the         *)
(* snapshot reports total_segments = n + k and remaining_segments =        *)
(* n + k - j - 1.  Checked under ScenarioSpec.                             *)
(***************************************************************************)
C14_ScenarioTrace ==
    (script.phase = "reported")
    => LET n == Len(script.loaded)
           j == script.advances
           k == Len(script.responses)
           snap == out[1]
       IN  /\ Len(snap.segments) = n + k
           /\ \A i \in 1..(j + 1) :
                 /\ snap.segments[i].segment_id = script.loaded[i].segment_id
                 /\ snap.segments[i].speaker = script.loaded[i].speaker
                 /\ ~snap.segments[i].is_response
           /\ \A i \in 1..k : IsResponseFor(snap.segments[j + 1 + i], script.responses[i])
           /\ \A i \in (j + 2)..n :
                 /\ snap.segments[i + k].segment_id = script.loaded[i].segment_id
                 /\ snap.segments[i + k].speaker = script.loaded[i].speaker
                 /\ ~snap.segments[i + k].is_response
           /\ current_position = j
           /\ snap.current_position = j
           /\ snap.total_segments = n + k
           /\ snap.remaining_segments = n + k - j - 1

\* The run of the specification's example: n = 3 (speakers zoya, ravi,
\* zoya), j = 1, k = 2, reported as total 5, cursor 1, remaining 3.
C14_Witness ==
    /\ script.phase = "reported"
    /\ Len(script.loaded) = 3
    /\ script.advances = 1
    /\ Len(script.responses) = 2
    /\ <<script.loaded[1].speaker, script.loaded[2].speaker, script.loaded[3].speaker>>
         = <<"zoya", "ravi", "zoya">>
    /\ [ i \in 1..5 |-> out[1].segments[i].is_response ]
         = <<FALSE, FALSE, TRUE, TRUE, FALSE>>
    /\ out[1].total_segments = 5
    /\ out[1].current_position = 1
    /\ out[1].remaining_segments = 3


(***************************************************************************)
(* Properties of the registry, checked under RegistrySpec.                 *)
(***************************************************************************)
\* The step is a call of op on the queue registered under some id.
RegistryCall(op) == last'.op = op /\ vars' # vars

\* C17: get_conversation_queue(id) for an id that is not registered creates
\* and stores a new queue with no segments, current_position 0 and not
\* paused, a new object next to the ones that exist; for a registered id it
\* returns the registered queue and changes no queue and no mapping, so a
\* call that directly follows a call with the same id returns the same queue.
C17_GetOrCreate ==
    [][ RegistryCall("get_conversation_queue") =>
          LET id == last'.id
          IN  /\ id \in DOMAIN _queues' /\ ref' = _queues'[id]
              /\ raised' = "none"
              /\ id \notin DOMAIN _queues =>
                   /\ ref' \notin DOMAIN heap
                   /\ heap' = (ref' :> NewQueue(id)) @@ heap
                   /\ _queues' = (id :> ref') @@ _queues
                   /\ heap'[ref'].segments = <<>>
                   /\ heap'[ref'].current_position = 0
                   /\ ~heap'[ref'].playback_paused
              /\ id \in DOMAIN _queues =>
                   /\ ref' = _queues[id]
                   /\ heap' = heap
                   /\ _queues' = _queues
              /\ (last.op = "get_conversation_queue" /\ last.id = id) => ref' = ref
      ]_vars

\* A call returned a registered queue that holds segments, has a cursor past
\* 0 and is paused.
C17_Witness ==
    /\ last.op = "get_conversation_queue"
    /\ ref \in DOMAIN heap
    /\ Len(heap[ref].segments) = 2
    /\ heap[ref].current_position = 1
    /\ heap[ref].playback_paused

\* C18: clear_queue(id) deletes the mapping of a registered id, and for an
\* id that is not registered raises nothing and leaves the registry as it
\* was; every other id keeps its mapping and its queue; the id is not
\* registered afterwards, and a get_conversation_queue(id) that follows
\* returns a new empty queue with cursor 0.
C18_ClearQueue ==
    [][ /\ RegistryCall("clear_queue") =>
            LET id == last'.id
            IN  /\ raised' = "none"
                /\ DOMAIN _queues' = DOMAIN _queues \ {id}
                /\ \A other \in DOMAIN _queues' :
                      /\ _queues'[other] = _queues[other]
                      /\ heap'[_queues'[other]] = heap[_queues[other]]
                /\ last'.cleared = (id \in DOMAIN _queues)
                /\ id \notin DOMAIN _queues => <<heap, _queues>>' = <<heap, _queues>>
        /\ ( /\ RegistryCall("get_conversation_queue")
             /\ last.op = "clear_queue"
             /\ last.id = last'.id ) =>
               /\ heap'[ref'] = NewQueue(last'.id)
               /\ heap'[ref'].segments = <<>>
               /\ heap'[ref'].current_position = 0
      ]_vars

\* A registered id was cleared while the other id is registered with a
\* queue that holds segments and has a cursor past 0.
C18_Witness ==
    /\ last.op = "clear_queue"
    /\ last.cleared
    /\ \E other \in DOMAIN _queues :
          /\ other # last.id
          /\ Len(heap[_queues[other]].segments) = 2
          /\ heap[_queues[other]].current_position = 1

\* C19: a call on the queue registered under one id (load, insert, advance,
\* seek, pause, resume, clear_queue or get_conversation_queue of that id)
\* leaves every other id registered under the same queue, with that queue's
\* segments, cursor and paused flag as they were, whatever the order in
\* which the calls on the ids are interleaved.
C19_Isolation ==
    [][ last'.op # "init" =>
          \A other \in DOMAIN _queues \ {last'.id} :
              /\ other \in DOMAIN _queues'
              /\ _queues'[other] = _queues[other]
              /\ heap'[_queues'[other]].segments = heap[_queues[other]].segments
              /\ heap'[_queues'[other]].current_position
                    = heap[_queues[other]].current_position
              /\ heap'[_queues'[other]].playback_paused
                    = heap[_queues[other]].playback_paused
      ]_vars

\* A response was inserted into one id's queue while the other id's queue
\* holds other segments, a cursor past 0 and is paused.
C19_Witness ==
    /\ last.op = "insert_response"
    /\ last.id \in DOMAIN _queues
    /\ \E other \in DOMAIN _queues :
          /\ other # last.id
          /\ heap[_queues[other]].segments # <<>>
          /\ heap[_queues[other]].segments # heap[_queues[last.id]].segments
          /\ \E i \in 1..Len(heap[_queues[last.id]].segments) :
                heap[_queues[last.id]].segments[i].is_response
          /\ heap[_queues[other]].current_position = 1
          /\ heap[_queues[other]].playback_paused

(***************************************************************************)
(* C21.  get_segment_by_id(id) returns the segment with the lowest list    *)
(* index whose segment_id equals id, and None exactly when no segment of   *)
(* the list has that id (an empty queue included); it raises nothing and   *)
(* changes neither the list, the cursor nor the paused flag.               *)
(***************************************************************************)
C21_FindById ==
    [][ (last'.op = "get_segment_by_id")
        => LET id == last'.segment_id
               hits == { i \in 1..Len(segments) : segments[i].segment_id = id }
           IN  /\ raised' = "none"
               /\ segments' = segments
               /\ current_position' = current_position
               /\ playback_paused' = playback_paused
               /\ (out' = <<>>) <=> (hits = {})
               /\ \A i \in hits :
                     (\A j \in hits : i <= j) => out' = <<segments[i]>> ]_vars

\* A lookup of an id that two segments of the list carry, told apart by
\* their sequence numbers; the first of the two was returned.
C21_Witness ==
    /\ last.op = "get_segment_by_id"
    /\ \E i, j \in 1..Len(segments) :
          /\ i < j
          /\ segments[i].segment_id = last.segment_id
          /\ segments[j].segment_id = last.segment_id
          /\ segments[i] # segments[j]
          /\ out = <<segments[i]>>

(***************************************************************************)
(* C22.  insert_response(after_current = true) and advance() do not        *)
(* commute.  From every state in which advance() succeeds and the segment  *)
(* after the cursor is not one with the id of the first response, insert   *)
(* then advance and advance then insert end with the segment ids in a      *)
(* different order and with a different segment under the cursor: the      *)
(* first response in the one, the old successor in the other.  The insert  *)
(* of the first order is the step taken; the second order is computed from *)
(* the state before it, with the same timestamps.                          *)
(***************************************************************************)
C22_InsertAdvanceDoNotCommute ==
    [][ ( /\ Inserted'
          /\ last'.insert_after_current
          /\ CanAdvance(current_position, segments)
          /\ segments[current_position + 2].segment_id # last'.input[1].segment_id )
        => LET c == current_position
               input == last'.input
               stamps == [ i \in 1..Len(input) |-> segments'[c + 1 + i].inserted_at ]
               \* insert, then advance
               segs1 == segments'
               cur1 == current_position' + 1
               \* advance, then insert
               cur2 == c + 1
               segs2 == InsertedSegments(segments, cur2, input, TRUE, stamps)
               ids(segs) == [ i \in 1..Len(segs) |-> segs[i].segment_id ]
           IN  /\ CanAdvance(current_position', segments')
               /\ cur1 = cur2
               /\ ids(segs1) # ids(segs2)
               /\ NextSegment(segs1, cur1) # NextSegment(segs2, cur2)
               /\ IsResponseFor(NextSegment(segs1, cur1)[1], input[1])
               /\ NextSegment(segs2, cur2) = <<segments[c + 2]>> ]_vars

\* A response inserted after the cursor between two loaded segments, with
\* the cursor on the first.
C22_Witness ==
    /\ Inserted
    /\ last.insert_after_current
    /\ current_position = 0
    /\ Len(segments) = 3
    /\ ~segments[1].is_response
    /\ segments[2].is_response
    /\ ~segments[3].is_response
    /\ segments[3].segment_id # segments[1].segment_id

(***************************************************************************)
(* C23.  Responses play next: after insert_response(new, after_current =   *)
(* true) with k >= 1 records at a valid cursor c, and no load, insert or   *)
(* seek since, the first k advance() calls succeed and put the cursor on   *)
(* c + 1 .. c + k, where the inserted segments sit in input order; until   *)
(* the first of them the cursor is still c.  Checked under PlaybackSpec.   *)
(***************************************************************************)
C23_ResponsesPlayNext ==
    (played.phase = "inserted")
    => LET k == Len(played.responses)
           n == played.advances
       IN  /\ k >= 1
           /\ \A i \in 1..k :
                 IsResponseFor(segments[played.at + 1 + i], played.responses[i])
           /\ (n <= k) => current_position = played.at + n
           /\ (1 <= n /\ n <= k)
                 => IsResponseFor(segments[current_position + 1], played.responses[n])
           /\ (1 <= n /\ n <= k /\ last.op = "advance") => ok

\* Two responses were inserted in front of a queued segment and the second
\* advance() since has just put the cursor on the second of them.
C23_Witness ==
    /\ played.phase = "inserted"
    /\ Len(played.responses) = 2
    /\ played.responses[1] # played.responses[2]
    /\ played.advances = 2
    /\ last.op = "advance"
    /\ ok
    /\ current_position + 1 < Len(segments)
    /\ ~segments[current_position + 2].is_response

(***************************************************************************)
(* C24.  Only seek moves the cursor backward or by more than one: across   *)
(* every call that is not a seek (load, insert_response, get_next_segment, *)
(* advance, pause, resume, get_segment_by_id, get_queue_state) the cursor  *)
(* is unchanged or, for an advance() that returned true, one higher.       *)
(***************************************************************************)
C24_OnlySeekJumps ==
    [][ (last'.op # "seek")
        => \/ current_position' = current_position
           \/ /\ last'.op = "advance"
              /\ ok'
              /\ current_position' = current_position + 1 ]_vars

\* A load that replaced a list of three by a list of one while the cursor
\* stood on the third: the cursor is where it was.
C24_Witness ==
    /\ last.op = "load_overview_segments"
    /\ raised = "none"
    /\ Len(segments) = 1
    /\ current_position = 2

(***************************************************************************)
(* C25.  The paused flag is advisory only: when two queues that agree on   *)
(* segment list and cursor, whatever their paused flags, receive the same  *)
(* get_next_segment, advance, seek, insert_response or load call, the two  *)
(* calls return or raise the same and the queues agree on segment list     *)
(* and cursor afterwards; each keeps its paused flag.  Checked under       *)
(* TwinSpec.                                                               *)
(***************************************************************************)
C25_PausedIsAdvisory ==
    [][ ( /\ last'.op \in { "get_next_segment", "advance", "seek", "insert_response",
                            "load_overview_segments" }
          /\ heap[1].segments = heap[2].segments
          /\ heap[1].current_position = heap[2].current_position )
        => /\ out'[1] = out'[2]
           /\ heap'[1].segments = heap'[2].segments
           /\ heap'[1].current_position = heap'[2].current_position
           /\ \A t \in Twins : heap'[t].playback_paused = heap[t].playback_paused ]_vars

\* Both queues advanced to the same segment although only one is paused.
C25_Witness ==
    /\ last.op = "advance"
    /\ heap[1].playback_paused
    /\ ~heap[2].playback_paused
    /\ out[1].ok
    /\ out[2].ok
    /\ heap[1].current_position = 2
    /\ heap[1].segments = heap[2].segments

(***************************************************************************)
(* C26.  Response marking.  In every reachable state a segment has         *)
(* is_response = true iff it was made from a record handed to              *)
(* insert_response (the response records and the overview records are      *)
(* different records, so the id tells), and inserted_at is set iff         *)
(* is_response is true.  Step by step: a load leaves only unmarked         *)
(* segments; an insert marks and stamps exactly the new segments and       *)
(* keeps the marking and stamp of every older one; no other call changes   *)
(* the list.                                                               *)
(***************************************************************************)
Marking(seg) == <<seg.is_response, seg.inserted_at>>

C26_ResponseMarking ==
    /\ [] ( \A i \in 1..Len(segments) :
               /\ segments[i].is_response
                     <=> (\E r \in ResponseRecords : r.segment_id = segments[i].segment_id)
               /\ (segments[i].inserted_at # "None") <=> segments[i].is_response )
    /\ [][ /\ (last'.op = "load_overview_segments")
              => \A i \in 1..Len(segments') : Marking(segments'[i]) = <<FALSE, "None">>
           /\ Inserted'
              => LET k == Len(last'.input)
                     p == IF ret' > Len(segments) THEN Len(segments) ELSE ret'
                 IN  /\ Len(segments') = Len(segments) + k
                     /\ \A i \in 1..p : Marking(segments'[i]) = Marking(segments[i])
                     /\ \A i \in (p + 1)..(p + k) :
                           /\ segments'[i].is_response
                           /\ segments'[i].inserted_at \in Timestamps
                     /\ \A i \in (p + 1)..Len(segments) :
                           Marking(segments'[i + k]) = Marking(segments[i])
           /\ (~Inserted' /\ last'.op # "load_overview_segments")
              => segments' = segments
         ]_vars

\* A response was inserted between a loaded segment and an older response,
\* which moved to the end and was renumbered: both responses are marked and
\* stamped, the loaded segment is not.
C26_Witness ==
    /\ Inserted
    /\ Len(segments) = 3
    /\ Marking(segments[1]) = <<FALSE, "None">>
    /\ IsResponseFor(segments[2], last.input[1])
    /\ segments[2].inserted_at # "None"
    /\ segments[3].is_response
    /\ segments[3].inserted_at # "None"
    /\ segments[3].segment_id # segments[2].segment_id
    /\ segments[3].sequence = 2

(***************************************************************************)
(* C27.  Segment identity is preserved.  No call other than a load removes *)
(* a segment or changes segment_id, speaker, text (or any field other than *)
(* sequence) of a segment that is in the queue: an insert keeps every      *)
(* older segment, in the old order, before or behind the new ones, and     *)
(* rewrites at most its sequence; advance, seek, pause, resume and the     *)
(* reading calls leave the list as it is.                                  *)
(***************************************************************************)
C27_IdentityPreserved ==
    [][ (last'.op # "load_overview_segments")
        => IF Inserted'
           THEN LET k == Len(last'.input)
                    p == IF ret' > Len(segments) THEN Len(segments) ELSE ret'
                IN  /\ Len(segments') = Len(segments) + k
                    /\ \A i \in 1..p :
                          /\ Identity(segments'[i]) = Identity(segments[i])
                          /\ segments'[i].segment_id = segments[i].segment_id
                          /\ segments'[i].speaker = segments[i].speaker
                          /\ segments'[i].text = segments[i].text
                    /\ \A i \in (p + 1)..Len(segments) :
                          /\ Identity(segments'[i + k]) = Identity(segments[i])
                          /\ segments'[i + k].segment_id = segments[i].segment_id
                          /\ segments'[i + k].speaker = segments[i].speaker
                          /\ segments'[i + k].text = segments[i].text
           ELSE segments' = segments ]_vars

\* An insert renumbered a loaded segment: its sequence is no longer the one
\* of its record, its id, speaker and text still are.
C27_Witness ==
    /\ Inserted
    /\ \E i \in 1..Len(segments), r \in OverviewRecords :
          /\ ~segments[i].is_response
          /\ r.segment_id = segments[i].segment_id
          /\ r.speaker = segments[i].speaker
          /\ r.text = segments[i].text
          /\ r.sequence # segments[i].sequence
          /\ segments[i].sequence = i - 1

(***************************************************************************)
(* C28.  The current segment is stable under insertion: when the cursor is *)
(* a valid index, insert_response (either value of insert_after_current,   *)
(* any input) leaves under the cursor the segment that was there, with all *)
(* its fields: get_next_segment() would return the same before and after.  *)
(***************************************************************************)
C28_CurrentStableUnderInsert ==
    [][ ( /\ last'.op = "insert_response"
          /\ 0 <= current_position
          /\ current_position < Len(segments) )
        => /\ NextSegment(segments', current_position')
                = NextSegment(segments, current_position)
           /\ NextSegment(segments', current_position') = <<segments[current_position + 1]>>
      ]_vars

\* A response went in right behind the cursor, which stands on the second
\* of two loaded segments.
C28_Witness ==
    /\ Inserted
    /\ last.insert_after_current
    /\ current_position = 1
    /\ Len(segments) = 3
    /\ ~segments[1].is_response
    /\ ~segments[2].is_response
    /\ IsResponseFor(segments[3], last.input[1])
    /\ NextSegment(segments, current_position) = <<segments[2]>>

(***************************************************************************)
(* C29.  Playback terminates: on a non-empty queue with a valid cursor, if *)
(* from some point on only advance() is called, the cursor comes to        *)
(* len(segments) - 1 after finitely many calls and stays there, every      *)
(* later advance() returning false.  Checked under PlaybackFairSpec, where *)
(* advance() keeps being called.                                           *)
(***************************************************************************)
ValidCursor ==
    /\ segments # <<>>
    /\ 0 <= current_position
    /\ current_position < Len(segments)

C29_PlaybackTerminates ==
    /\ (<>[][last'.op = "advance"]_vars)
          => <>[](ValidCursor => current_position = Len(segments) - 1)
    /\ [][ ( /\ ValidCursor
             /\ current_position = Len(segments) - 1
             /\ last'.op = "advance" )
           => /\ ~ok'
              /\ current_position' = current_position
              /\ segments' = segments ]_vars

\* After two responses went in behind the only loaded segment, two
\* advance() calls succeeded and the third was refused on the last segment.
C29_Witness ==
    /\ played.phase = "inserted"
    /\ Len(played.responses) = 2
    /\ played.advances = 3
    /\ last.op = "advance"
    /\ ~ok
    /\ Len(segments) = 3
    /\ current_position = Len(segments) - 1

(***************************************************************************)
(* C30.  Registry creation is race-free: when get_conversation_queue calls *)
(* for the same id interleave, the callers hold the same queue object, and *)
(* a queue that a caller holds (and may have loaded) is the one the        *)
(* registry keeps under its id, not replaced by a second, empty one.       *)
(* Checked under RaceSpec, where nothing is ever cleared.                  *)
(***************************************************************************)
C30_CreationRaceFree ==
    /\ \A c1, c2 \in Callers :
          ( /\ callers[c1].held # 0
            /\ callers[c2].held # 0
            /\ callers[c1].id = callers[c2].id
            /\ callers[c1].pc = "outside"
            /\ callers[c2].pc = "outside" )
          => callers[c1].held = callers[c2].held
    /\ \A c \in Callers :
          (callers[c].held # 0 /\ callers[c].pc = "outside")
          => _queues[callers[c].id] = callers[c].held
====
